---- MODULE Spec2Model ----
(***************************************************************************)
(* Modified Berggren frost depth calculator (modberg.py) and its Streamlit *)
(* front end (app.py).                                                     *)
(*                                                                         *)
(* Numbers.  Python floats are modelled as exact rationals                 *)
(* [num |-> n, den |-> d] in lowest terms with d > 0; NaN is the record    *)
(* with den = 0.  round(x, k) is round-half-to-even on the exact value.    *)
(* A division by a zero float raises ZeroDivisionError, which the callers  *)
(* model as an exception before the quotient is formed.                    *)
(***************************************************************************)
EXTENDS Integers, Sequences, FiniteSets

\* ------------------------------------------------------------------------
\* Exact arithmetic standing in for float arithmetic
\* ------------------------------------------------------------------------

Abs(n) == IF n < 0 THEN -n ELSE n

RECURSIVE GCD(_, _)
GCD(a, b) == IF b = 0 THEN a ELSE GCD(b, a % b)

NaN == [num |-> 0, den |-> 0]

\* A local that has not been assigned yet.
None == [num |-> -1, den |-> 0]

IsNaN(x) == x = NaN

IsNumber(x) == x.den > 0

Rat(n, d) ==
    LET s == IF d < 0 THEN -1 ELSE 1
        g == GCD(Abs(n), Abs(d))
    IN  [num |-> (s * n) \div g, den |-> (s * d) \div g]

Num(n) == [num |-> n, den |-> 1]

RAdd(x, y) ==
    IF IsNaN(x) \/ IsNaN(y) THEN NaN
    ELSE LET g == GCD(x.den, y.den)
         IN  Rat(x.num * (y.den \div g) + y.num * (x.den \div g),
                 (x.den \div g) * y.den)

RNeg(x) == IF IsNaN(x) THEN NaN ELSE [num |-> -x.num, den |-> x.den]

RSub(x, y) == RAdd(x, RNeg(y))

\* Cross-cancelled product, so that intermediate integers stay small.
RMul(x, y) ==
    IF IsNaN(x) \/ IsNaN(y) THEN NaN
    ELSE LET g1 == GCD(Abs(x.num), y.den)
             g2 == GCD(Abs(y.num), x.den)
         IN  [num |-> (x.num \div g1) * (y.num \div g2),
              den |-> (x.den \div g2) * (y.den \div g1)]

\* x / y for y # 0 (the callers raise ZeroDivisionError when y = 0).
RDiv(x, y) ==
    IF IsNaN(x) \/ IsNaN(y) THEN NaN
    ELSE RMul(x, Rat(y.den, y.num))

RAbs(x) == IF IsNaN(x) THEN NaN ELSE [num |-> Abs(x.num), den |-> x.den]

RIsZero(x) == IsNumber(x) /\ x.num = 0

RLess(x, y) == x.num * y.den < y.num * x.den

Pow10(k) == CASE k = 0 -> 1 [] k = 1 -> 10 [] k = 2 -> 100 [] k = 3 -> 1000

\* Nearest integer to n/d (d > 0), ties to the even neighbour.
RoundHalfEven(n, d) ==
    LET q == n \div d
        r == n % d
    IN  IF 2 * r < d THEN q
        ELSE IF 2 * r > d THEN q + 1
        ELSE IF q % 2 = 0 THEN q ELSE q + 1

\* Python's round(x, ndigits) on a float.
Round(x, ndigits) ==
    IF IsNaN(x) THEN NaN
    ELSE LET s == RMul(x, Num(Pow10(ndigits)))
         IN  Rat(RoundHalfEven(s.num, s.den), Pow10(ndigits))

\* a/b <= c/d for a, c >= 0 and b, d > 0, by Euclid's algorithm on the two
\* fractions: no product is formed, so nothing overflows.
RECURSIVE FracLeq(_, _, _, _)
FracLeq(a, b, c, d) ==
    LET qa == a \div b
        qc == c \div d
        ra == a % b
        rc == c % d
    IN  IF qa # qc THEN qa < qc
        ELSE IF ra = 0 THEN TRUE
        ELSE IF rc = 0 THEN FALSE
        ELSE FracLeq(d, rc, b, ra)

\* Ceiling of the search for a rounded square root (in units of 10^-ndigits).
MaxRounded == 4096

\* Largest m in lo..hi with ((2m - 1) / (2 * scale))^2 <= q, i.e. with
\* m - 1/2 <= scale * sqrt(q); lo satisfies it.
RECURSIVE SqrtSearch(_, _, _, _)
SqrtSearch(lo, hi, q, scale) ==
    IF lo = hi THEN lo
    ELSE LET mid == (lo + hi + 1) \div 2
         IN  IF FracLeq((2 * mid - 1) * (2 * mid - 1), 4 * scale * scale,
                        q.num, q.den)
             THEN SqrtSearch(mid, hi, q, scale)
             ELSE SqrtSearch(lo, mid - 1, q, scale)

\* round(sqrt(q), ndigits) for a rational q >= 0.
RoundSqrt(q, ndigits) ==
    IF IsNaN(q) THEN NaN
    ELSE LET scale == Pow10(ndigits)
             m == SqrtSearch(0, MaxRounded, q, scale)
             tie == m > 0
                    /\ FracLeq(q.num, q.den,
                               (2 * m - 1) * (2 * m - 1), 4 * scale * scale)
         IN  Rat(IF tie /\ m % 2 = 1 THEN m - 1 ELSE m, scale)

\* ------------------------------------------------------------------------
\* modberg.py: the formulas
\* ------------------------------------------------------------------------

\* The percentage taken as a fraction: wc_pct instead of wc_pct / 100.
latent_heat_without_percent(dry_ro, wc_pct) ==
    LET L == RMul(RMul(Num(144), dry_ro), wc_pct)
    IN  Round(L, 2)

compute_volumetric_latent_heat_of_fusion(dry_ro, wc_pct) ==
    LET L == RMul(RMul(Num(144), dry_ro), RDiv(wc_pct, Num(100)))
    IN  Round(L, 2)

compute_frozen_volumetric_specific_heat(dry_ro, wc_pct) ==
    LET c == RMul(dry_ro, RAdd(Rat(17, 100),
                               RMul(Rat(1, 2), RDiv(wc_pct, Num(100)))))
    IN  Round(c, 2)

compute_unfrozen_volumetric_specific_heat(dry_ro, wc_pct) ==
    LET c == RMul(dry_ro, RAdd(Rat(17, 100),
                               RMul(Num(1), RDiv(wc_pct, Num(100)))))
    IN  Round(c, 2)

\* The frozen-soil weight 0.5 where the average 0.75 belongs.
avg_specific_heat_with_frozen_weight(dry_ro, wc_pct) ==
    LET c == RMul(dry_ro, RAdd(Rat(17, 100),
                               RMul(Rat(1, 2), RDiv(wc_pct, Num(100)))))
    IN  Round(c, 2)

compute_avg_volumetric_specific_heat(dry_ro, wc_pct) ==
    LET c == RMul(dry_ro, RAdd(Rat(17, 100),
                               RMul(Rat(3, 4), RDiv(wc_pct, Num(100)))))
    IN  Round(c, 2)

\* d # 0 (an int; the duration slider starts at 30).
compute_seasonal_v_s(nFI, d) == RDiv(nFI, d)

compute_multiyear_v_s(mat) == RAbs(RSub(mat, Num(32)))

compute_v_o(magt) == RAbs(RSub(magt, Num(32)))

\* v_s # 0: the caller raises ZeroDivisionError otherwise.
compute_thermal_ratio(v_o, v_s) ==
    LET thermal_ratio == RDiv(v_o, v_s)
    IN  Round(thermal_ratio, 3)

\* mu returned without its rounding to 3 decimals.
fusion_parameter_unrounded(v_s, c, L) == RMul(v_s, RDiv(c, L))

\* L # 0: the caller raises ZeroDivisionError otherwise.
compute_fusion_parameter(v_s, c, L) ==
    LET mu == RMul(v_s, RDiv(c, L))
    IN  Round(mu, 3)

\* 1.0 / sqrt(q) = sqrt(1 / q) for q = 1 + mu * (thermal_ratio + 0.5) > 0.
compute_coeff(mu, thermal_ratio) ==
    LET q == RAdd(Num(1), RMul(mu, RAdd(thermal_ratio, Rat(1, 2))))
    IN  IF IsNaN(q) THEN NaN ELSE RoundSqrt(RDiv(Num(1), q), 2)

\* coeff * sqrt(q) = sqrt(coeff^2 * q) for coeff >= 0 and
\* q = 48 * k_avg * nFI / L >= 0.
compute_depth_of_freezing(coeff, k_avg, nFI, L) ==
    LET q == RDiv(RMul(RMul(Num(48), k_avg), nFI), L)
    IN  RoundSqrt(RMul(RMul(coeff, coeff), q), 1)


\* ------------------------------------------------------------------------
\* The remote service (earthmaps.io) as the two fetch functions see it
\* ------------------------------------------------------------------------

\* app.py radio options.
ModelsA == {"GFDL-CM3", "NCAR-CCSM4", "GISS-E2-R", "IPSL-CM5A-LR", "MRI-CGCM3"}

ModelsB == {"GFDL-CM3", "NCAR-CCSM4"}

Scenarios == {"rcp45", "rcp6", "rcp85"}

Eras == {"2040-2069", "2070-2099"}

\* Strings are sequences of one-character strings where the code takes them
\* apart (the keys of the temperature branch).
Digits == {"0", "1", "2", "3", "4", "5", "6", "7", "8", "9"}

DigitVal(ch) ==
    CASE ch = "0" -> 0 [] ch = "1" -> 1 [] ch = "2" -> 2 [] ch = "3" -> 3
      [] ch = "4" -> 4 [] ch = "5" -> 5 [] ch = "6" -> 6 [] ch = "7" -> 7
      [] ch = "8" -> 8 [] ch = "9" -> 9

\* j.split('_')[0]
RECURSIVE SplitHead(_)
SplitHead(j) ==
    IF j = <<>> \/ Head(j) = "_" THEN <<>>
    ELSE <<Head(j)>> \o SplitHead(Tail(j))

\* int(s) for a string of digits.
RECURSIVE ParseInt(_)
ParseInt(s) ==
    IF s = <<>> THEN 0
    ELSE 10 * ParseInt(SubSeq(s, 1, Len(s) - 1)) + DigitVal(s[Len(s)])

\* One leaf of the [model][scenario] branch: outer key, inner key and the
\* value in tenths of a degree C.
Leaf(outer, inner, tenths) == [outer |-> outer, inner |-> inner, val |-> tenths]

Tasmean == <<"t", "a", "s", "m", "e", "a", "n">>

BranchDecades ==
    << Leaf(<<"2", "0", "4", "0">>, Tasmean, -66),
       Leaf(<<"2", "0", "5", "0">>, Tasmean, -67),
       Leaf(<<"2", "0", "6", "0">>, Tasmean, -67),
       Leaf(<<"2", "0", "7", "0">>, Tasmean, 10) >>

BranchMinMax ==
    << Leaf(<<"2", "0", "4", "0">>, <<"t", "a", "s", "m", "a", "x">>, 21),
       Leaf(<<"2", "0", "4", "0">>, <<"t", "a", "s", "m", "i", "n">>, -130),
       Leaf(<<"2", "0", "6", "9">>, <<"t", "a", "s", "m", "a", "x">>, 44) >>

\* What requests.get(url) can do for endpoint A: raise, or return a response
\* whose body is not JSON, or is JSON holding the given model and scenario
\* keys, every [model][scenario] branch being `branch`.  `status` is the HTTP
\* status, which the code never reads.
RespA(kind, status, models, scenarios, branch) ==
    [kind |-> kind, status |-> status, models |-> models,
     scenarios |-> scenarios, eras |-> {}, hasDi |-> FALSE, di |-> 0,
     branch |-> branch]

RespB(kind, status, models, eras, hasDi, di) ==
    [kind |-> kind, status |-> status, models |-> models, scenarios |-> {},
     eras |-> eras, hasDi |-> hasDi, di |-> di, branch |-> <<>>]

NoResp == RespA("none", 0, {}, {}, <<>>)

ResponsesA ==
    { RespA("raise", 0, {}, {}, <<>>),
      RespA("notjson", 500, {}, {}, <<>>),
      RespA("json", 404, {}, {}, <<>>),
      RespA("json", 200, ModelsA \ {"GFDL-CM3"}, Scenarios, BranchDecades),
      RespA("json", 200, ModelsA, Scenarios, BranchDecades),
      RespA("json", 200, ModelsA, Scenarios, BranchMinMax) }

ResponsesB ==
    { RespB("raise", 0, {}, {}, FALSE, 0),
      RespB("notjson", 500, {}, {}, FALSE, 0),
      RespB("json", 200, ModelsB, {"2040-2069"}, TRUE, 1200),
      RespB("json", 200, ModelsB, Eras, FALSE, 0),
      RespB("json", 200, ModelsB, Eras, TRUE, 3000),
      RespB("json", 200, ModelsB, Eras, TRUE, 0) }

UrlA(lat, lon) == [endpoint |-> "mmm/temperature/all", lat |-> lat, lon |-> lon]

UrlB(lat, lon) ==
    [endpoint |-> "design_index/freezing/all/point", lat |-> lat, lon |-> lon]

\* A cache in front of the network: nothing is sent for a URL already asked.
requests_get_cached(sent, api_url) ==
    IF \E i \in 1..Len(sent) : sent[i] = api_url
    THEN sent
    ELSE Append(sent, api_url)

\* requests.get(api_url): one request goes out.
requests_get(sent, api_url) == Append(sent, api_url)

\* .json() succeeds
json_ok(r) == r.kind = "json"

\* Lookups that fall back to an empty branch: .get(model, {}).get(scenario, {})
model_scenario_defaulted(r, model, scenario) == TRUE

\* resp.json()[model][scenario] finds both keys
has_model_scenario(r, model, scenario) ==
    model \in r.models /\ scenario \in r.scenarios

\* resp.json()[model][era]["di"] finds the three keys
has_model_era_di(r, model, era) ==
    model \in r.models /\ era \in r.eras /\ r.hasDi

\* pd.json_normalize(resp, sep="_").T: one row per leaf, labelled outer_inner
json_normalize(branch) ==
    [i \in 1..Len(branch) |->
        [label |-> branch[i].outer \o <<"_">> \o branch[i].inner,
         val |-> branch[i].val]]

\* years = [int(j.split('_')[0]) for j in df.index.values]; set_index("year")
set_index_year(df) ==
    [i \in 1..Len(df) |->
        [year |-> ParseInt(SplitHead(df[i].label)), val |-> df[i].val]]

\* A positional-style slice: year_end itself left out.
loc_slice_end_excluded(df, year_start, year_end) ==
    LET InRange(row) == year_start <= row.year /\ row.year < year_end
    IN  SelectSeq(df, InRange)

\* df.loc[year_start:year_end] on the year-sorted index: a label slice,
\* both ends included.
loc_slice(df, year_start, year_end) ==
    LET InRange(row) == year_start <= row.year /\ row.year <= year_end
    IN  SelectSeq(df, InRange)

RECURSIVE SumVal(_)
SumVal(df) == IF df = <<>> THEN 0 ELSE Head(df).val + SumVal(Tail(df))

\* .mean(): NaN on an empty selection.  Values are tenths of a degree.
mean(df) == IF df = <<>> THEN NaN ELSE Rat(SumVal(df), 10 * Len(df))

\* lines 78-84 of get_projected_mat_from_api
mat_from_branch(branch, year_start, year_end) ==
    LET df == set_index_year(json_normalize(branch))
        mean_temp_degC == mean(loc_slice(df, year_start, year_end))
        mat_degF == RAdd(RMul(mean_temp_degC, Rat(18, 10)), Num(32))
    IN  Round(mat_degF, 1)


\* ------------------------------------------------------------------------
\* State
\* ------------------------------------------------------------------------

VARIABLES
    pc,        \* the statement about to run ("idle" before the first
               \* operation, "done" after an operation has ended)
    stack,     \* return addresses of the calls in progress
    exc,       \* the exception that ended the last operation, or "none"
    retval,    \* the value the last return handed to its caller
    resp,      \* the response requests.get returned to the running fetch
    fa,        \* arguments of the running fetch function
    app,       \* app.py's module-level names during a script run
    mbf,       \* arguments and locals of compute_modified_bergrenn
    net,       \* the requests sent so far, in order
    fetchlog,  \* the fetch calls that have ended, in order
    mblog,     \* the compute_modified_bergrenn calls that have ended
    runs       \* operations started so far

vars == <<pc, stack, exc, retval, resp, fa, app, mbf, net, fetchlog, mblog,
          runs>>

\* Script runs of one session / direct calls of one test, at most.
MaxRuns == 2

NoArgs ==
    [fn |-> "none", lat |-> 0, lon |-> 0, model |-> "", scenario |-> "",
     year_start |-> 0, year_end |-> 0, era |-> "", net0 |-> 0]

NoApp ==
    [lat |-> 0, lon |-> 0, model |-> "", scenario |-> "", year_start |-> 0,
     year_end |-> 0, era |-> "", mat |-> None, FI |-> None, n |-> None,
     d |-> None, nFI |-> None, magt |-> None, wc_pct |-> None,
     dry_ro |-> None, k_avg |-> None, mb |-> None]

NoFrame ==
    [active |-> FALSE, dry_ro |-> None, wc_pct |-> None, mat |-> None,
     magt |-> None, d |-> None, nFI |-> None, k_avg |-> None, lat |-> 0,
     lon |-> 0, model |-> "", scenario |-> "", year_start |-> 0,
     year_end |-> 0, L |-> None, c |-> None, v_s |-> None, v_o |-> None,
     thermal_ratio |-> None, mu |-> None, lambda_coeff |-> None,
     frost_depth |-> None, net0 |-> 0]

Init ==
    /\ pc = "idle"
    /\ stack = <<>>
    /\ exc = "none"
    /\ retval = None
    /\ resp = NoResp
    /\ fa = NoArgs
    /\ app = NoApp
    /\ mbf = NoFrame
    /\ net = <<>>
    /\ fetchlog = <<>>
    /\ mblog = {}
    /\ runs = 0

\* What the log keeps of a fetch call that has ended.
FetchRecord(args, r, e, result, sent) ==
    [fn |-> args.fn, model |-> args.model, scenario |-> args.scenario,
     year_start |-> args.year_start, year_end |-> args.year_end,
     era |-> args.era, resp |-> r, exc |-> e, result |-> result,
     nreq |-> Len(sent) - args.net0]

\* What the log keeps of a compute_modified_bergrenn call that has ended.
MbRecord(f, e, result, sent) ==
    [dry_ro |-> f.dry_ro, wc_pct |-> f.wc_pct, magt |-> f.magt,
     d |-> f.d, nFI |-> f.nFI, k_avg |-> f.k_avg,
     exc |-> e, result |-> result, nreq |-> Len(sent) - f.net0]

\* An exception: neither modberg.py nor app.py has a handler, so it unwinds
\* every frame and ends the operation.
Raise(e, sent) ==
    /\ pc' = "done"
    /\ exc' = e
    /\ stack' = <<>>
    /\ retval' = None
    /\ resp' = NoResp
    /\ fa' = NoArgs
    /\ mbf' = NoFrame
    /\ mblog' = IF mbf.active
                THEN mblog \cup {MbRecord(mbf, e, None, sent)}
                ELSE mblog

\* return value: back to the caller's next statement.
Return(value) ==
    /\ pc' = Head(stack)
    /\ stack' = Tail(stack)
    /\ retval' = value

\* Entering get_projected_mat_from_api / get_projected_design_fi_from_api.
FetchArgs(fn, lat, lon, model, scenario, year_start, year_end, era) ==
    [fn |-> fn, lat |-> lat, lon |-> lon, model |-> model,
     scenario |-> scenario, year_start |-> year_start,
     year_end |-> year_end, era |-> era, net0 |-> Len(net)]

\* ------------------------------------------------------------------------
\* modberg.py: get_projected_mat_from_api
\* ------------------------------------------------------------------------

\* line 76-77: requests.get(api_url)
mat_requests_get ==
    /\ pc = "mat_77"
    /\ net' = requests_get(net, UrlA(fa.lat, fa.lon))
    /\ \E r \in ResponsesA :
        IF r.kind = "raise"
        THEN /\ Raise("ConnectionError", net')
             /\ fetchlog' = Append(fetchlog,
                    FetchRecord(fa, r, "ConnectionError", None, net'))
        ELSE /\ resp' = r
             /\ pc' = "mat_77_json"
             /\ UNCHANGED <<stack, exc, retval, fa, mbf, mblog, fetchlog>>
    /\ UNCHANGED <<app, runs>>

\* line 77: .json()[model][scenario]
mat_json_lookup ==
    /\ pc = "mat_77_json"
    /\ IF ~json_ok(resp)
       THEN /\ Raise("JSONDecodeError", net)
            /\ fetchlog' = Append(fetchlog,
                   FetchRecord(fa, resp, "JSONDecodeError", None, net))
       ELSE IF ~has_model_scenario(resp, fa.model, fa.scenario)
       THEN /\ Raise("KeyError", net)
            /\ fetchlog' = Append(fetchlog,
                   FetchRecord(fa, resp, "KeyError", None, net))
       ELSE /\ pc' = "mat_78"
            /\ UNCHANGED <<stack, exc, retval, resp, fa, mbf, mblog,
                           fetchlog>>
    /\ UNCHANGED <<app, net, runs>>

\* lines 78-84: normalize, select the years, mean, convert, round, return
mat_return ==
    /\ pc = "mat_78"
    /\ LET v == mat_from_branch(resp.branch, fa.year_start, fa.year_end)
       IN  /\ Return(v)
           /\ fetchlog' = Append(fetchlog,
                  FetchRecord(fa, resp, "none", v, net))
    /\ resp' = NoResp
    /\ fa' = NoArgs
    /\ UNCHANGED <<exc, app, mbf, net, mblog, runs>>

\* ------------------------------------------------------------------------
\* modberg.py: get_projected_design_fi_from_api
\* ------------------------------------------------------------------------

\* line 89-90: requests.get(api_url)
fi_requests_get ==
    /\ pc = "fi_90"
    /\ net' = requests_get(net, UrlB(fa.lat, fa.lon))
    /\ \E r \in ResponsesB :
        IF r.kind = "raise"
        THEN /\ Raise("ConnectionError", net')
             /\ fetchlog' = Append(fetchlog,
                    FetchRecord(fa, r, "ConnectionError", None, net'))
        ELSE /\ resp' = r
             /\ pc' = "fi_90_json"
             /\ UNCHANGED <<stack, exc, retval, fa, mbf, mblog, fetchlog>>
    /\ UNCHANGED <<app, runs>>

\* lines 90-91: .json()[model][era]["di"]; return
fi_json_lookup_return ==
    /\ pc = "fi_90_json"
    /\ IF ~json_ok(resp)
       THEN /\ Raise("JSONDecodeError", net)
            /\ fetchlog' = Append(fetchlog,
                   FetchRecord(fa, resp, "JSONDecodeError", None, net))
       ELSE IF ~has_model_era_di(resp, fa.model, fa.era)
       THEN /\ Raise("KeyError", net)
            /\ fetchlog' = Append(fetchlog,
                   FetchRecord(fa, resp, "KeyError", None, net))
       ELSE /\ Return(Num(resp.di))
            /\ fetchlog' = Append(fetchlog,
                   FetchRecord(fa, resp, "none", Num(resp.di), net))
            /\ resp' = NoResp
            /\ fa' = NoArgs
            /\ UNCHANGED <<exc, mbf, mblog>>
    /\ UNCHANGED <<app, net, runs>>


\* ------------------------------------------------------------------------
\* modberg.py: compute_modified_bergrenn
\* ------------------------------------------------------------------------

\* The last six arguments of compute_modified_bergrenn.
Selectors(lat, lon, model, scenario, year_start, year_end) ==
    [lat |-> lat, lon |-> lon, model |-> model, scenario |-> scenario,
     year_start |-> year_start, year_end |-> year_end]

\* Entering compute_modified_bergrenn with its thirteen arguments.
MbFrame(dry_ro, wc_pct, mat, magt, d, nFI, k_avg, sel) ==
    [NoFrame EXCEPT !.active = TRUE, !.dry_ro = dry_ro, !.wc_pct = wc_pct,
                    !.mat = mat, !.magt = magt, !.d = d, !.nFI = nFI,
                    !.k_avg = k_avg, !.lat = sel.lat, !.lon = sel.lon,
                    !.model = sel.model, !.scenario = sel.scenario,
                    !.year_start = sel.year_start,
                    !.year_end = sel.year_end, !.net0 = Len(net)]

\* lines 201-202: mat = get_projected_mat_from_api(...), the call
mb_call_get_projected_mat ==
    /\ pc = "mb_201"
    /\ fa' = FetchArgs("mat", mbf.lat, mbf.lon, mbf.model, mbf.scenario,
                       mbf.year_start, mbf.year_end, "")
    /\ stack' = <<"mb_203">> \o stack
    /\ pc' = "mat_77"
    /\ UNCHANGED <<exc, retval, resp, app, mbf, net, fetchlog, mblog, runs>>

\* lines 201-203: the assignment of the returned mat, then L
mb_L ==
    /\ pc = "mb_203"
    /\ mbf' = [mbf EXCEPT
                 !.mat = retval,
                 !.L = compute_volumetric_latent_heat_of_fusion(
                           mbf.dry_ro, mbf.wc_pct)]
    /\ pc' = "mb_204"
    /\ UNCHANGED <<stack, exc, retval, resp, fa, app, net, fetchlog, mblog,
                   runs>>

\* line 204
mb_c ==
    /\ pc = "mb_204"
    /\ mbf' = [mbf EXCEPT
                 !.c = compute_avg_volumetric_specific_heat(
                           mbf.dry_ro, mbf.wc_pct)]
    /\ pc' = "mb_205"
    /\ UNCHANGED <<stack, exc, retval, resp, fa, app, net, fetchlog, mblog,
                   runs>>

\* line 205: nFI / d
mb_v_s ==
    /\ pc = "mb_205"
    /\ IF RIsZero(mbf.d)
       THEN /\ Raise("ZeroDivisionError", net)
       ELSE /\ mbf' = [mbf EXCEPT
                         !.v_s = compute_seasonal_v_s(mbf.nFI, mbf.d)]
            /\ pc' = "mb_206"
            /\ UNCHANGED <<stack, exc, retval, resp, fa, mblog>>
    /\ UNCHANGED <<app, net, fetchlog, runs>>

\* line 206
mb_v_o ==
    /\ pc = "mb_206"
    /\ mbf' = [mbf EXCEPT !.v_o = compute_v_o(mbf.magt)]
    /\ pc' = "mb_207"
    /\ UNCHANGED <<stack, exc, retval, resp, fa, app, net, fetchlog, mblog,
                   runs>>

\* line 207: v_o / v_s
mb_thermal_ratio ==
    /\ pc = "mb_207"
    /\ IF RIsZero(mbf.v_s)
       THEN /\ Raise("ZeroDivisionError", net)
       ELSE /\ mbf' = [mbf EXCEPT
                         !.thermal_ratio =
                             compute_thermal_ratio(mbf.v_o, mbf.v_s)]
            /\ pc' = "mb_208"
            /\ UNCHANGED <<stack, exc, retval, resp, fa, mblog>>
    /\ UNCHANGED <<app, net, fetchlog, runs>>

\* line 208: v_s * (c / L)
mb_mu ==
    /\ pc = "mb_208"
    /\ IF RIsZero(mbf.L)
       THEN /\ Raise("ZeroDivisionError", net)
       ELSE /\ mbf' = [mbf EXCEPT
                         !.mu = compute_fusion_parameter(mbf.v_s, mbf.c,
                                                         mbf.L)]
            /\ pc' = "mb_209"
            /\ UNCHANGED <<stack, exc, retval, resp, fa, mblog>>
    /\ UNCHANGED <<app, net, fetchlog, runs>>

\* line 209
mb_lambda_coeff ==
    /\ pc = "mb_209"
    /\ mbf' = [mbf EXCEPT
                 !.lambda_coeff = compute_coeff(mbf.mu, mbf.thermal_ratio)]
    /\ pc' = "mb_210"
    /\ UNCHANGED <<stack, exc, retval, resp, fa, app, net, fetchlog, mblog,
                   runs>>

\* line 210: ... / L
mb_frost_depth ==
    /\ pc = "mb_210"
    /\ IF RIsZero(mbf.L)
       THEN /\ Raise("ZeroDivisionError", net)
       ELSE /\ mbf' = [mbf EXCEPT
                         !.frost_depth =
                             compute_depth_of_freezing(mbf.lambda_coeff,
                                 mbf.k_avg, mbf.nFI, mbf.L)]
            /\ pc' = "mb_211"
            /\ UNCHANGED <<stack, exc, retval, resp, fa, mblog>>
    /\ UNCHANGED <<app, net, fetchlog, runs>>

\* line 211: return frost_depth
mb_return ==
    /\ pc = "mb_211"
    /\ Return(mbf.frost_depth)
    /\ mblog' = mblog \cup {MbRecord(mbf, "none", mbf.frost_depth, net)}
    /\ mbf' = NoFrame
    /\ UNCHANGED <<exc, resp, fa, app, net, fetchlog, runs>>

\* ------------------------------------------------------------------------
\* app.py: one script run per (re)run of the Streamlit session
\* ------------------------------------------------------------------------

\* Widget values the runs are drawn from (each within its widget's range).
AppLat == {65}

AppLon == {-147}

AppModelsA == {"MRI-CGCM3"}

AppScenarios == {"rcp85"}

AppYearRanges == {<<2040, 2069>>, <<2007, 2039>>}

AppModelsB == {"GFDL-CM3", "NCAR-CCSM4"}

AppEras == {"2040-2069"}

AppN == {Rat(75, 100)}

AppD == {Num(160)}

AppWcPct == {Num(15)}

AppDryRo == {Num(100)}

AppKAvg == {Rat(78, 100)}

\* lines 10-26: location, model, scenario and year widgets; the first fetch.
\* A run starts with fresh module-level names; the logs observe one run,
\* except mblog, which is kept for the session.
app_run ==
    /\ pc \in {"idle", "done"}
    /\ runs < MaxRuns
    /\ runs' = runs + 1
    /\ \E lat \in AppLat, lon \in AppLon, model \in AppModelsA,
          scenario \in AppScenarios, yr \in AppYearRanges :
        /\ app' = [NoApp EXCEPT !.lat = lat, !.lon = lon, !.model = model,
                                !.scenario = scenario,
                                !.year_start = yr[1], !.year_end = yr[2]]
        /\ fa' = [FetchArgs("mat", lat, lon, model, scenario, yr[1], yr[2],
                            "") EXCEPT !.net0 = 0]
    /\ net' = <<>>
    /\ fetchlog' = <<>>
    /\ exc' = "none"
    /\ retval' = None
    /\ stack' = <<"app_27">>
    /\ pc' = "mat_77"
    /\ UNCHANGED <<resp, mbf, mblog>>

\* lines 25-39: mat = ...; the design-index model and era widgets (`model`
\* is rebound); the second fetch
app_mat_FI ==
    /\ pc = "app_27"
    /\ \E model \in AppModelsB, era \in AppEras :
        /\ app' = [app EXCEPT !.mat = retval, !.model = model, !.era = era]
        /\ fa' = FetchArgs("fi", app.lat, app.lon, model, "", 0, 0, era)
    /\ stack' = <<"app_40">> \o stack
    /\ pc' = "fi_90"
    /\ UNCHANGED <<exc, retval, resp, mbf, net, fetchlog, mblog, runs>>

\* lines 39-74: FI = ...; the climate and soil widgets; nFI = n * FI;
\* magt = mat; the call of compute_modified_bergrenn
app_params_mb ==
    /\ pc = "app_40"
    /\ \E n \in AppN, d \in AppD, wc_pct \in AppWcPct, dry_ro \in AppDryRo,
          k_avg \in AppKAvg :
        LET nFI == RMul(n, retval)
            magt == app.mat
        IN  /\ app' = [app EXCEPT !.FI = retval, !.n = n, !.d = d,
                                  !.nFI = nFI, !.magt = magt,
                                  !.wc_pct = wc_pct, !.dry_ro = dry_ro,
                                  !.k_avg = k_avg]
            /\ mbf' = MbFrame(dry_ro, wc_pct, app.mat, magt, d, nFI, k_avg,
                              Selectors(app.lat, app.lon, app.model,
                                        app.scenario, app.year_start,
                                        app.year_end))
    /\ stack' = <<"app_76">> \o stack
    /\ pc' = "mb_201"
    /\ UNCHANGED <<exc, retval, resp, fa, net, fetchlog, mblog, runs>>

\* lines 65-76: mb = ...; st.success shows the depth
app_success ==
    /\ pc = "app_76"
    /\ app' = [app EXCEPT !.mb = retval]
    /\ pc' = "done"
    /\ UNCHANGED <<stack, exc, retval, resp, fa, mbf, net, fetchlog, mblog,
                   runs>>

\* ------------------------------------------------------------------------
\* Direct calls of the three functions a caller of modberg.py can make
\* ------------------------------------------------------------------------

\* Arguments the direct calls are drawn from.  "ACCESS1-0", "rcp26" and
\* "2010-2039" are outside the enumerated selector values.
CallModelsMat == {"GFDL-CM3", "ACCESS1-0"}

CallScenarios == {"rcp85", "rcp26"}

CallYearRanges == {<<2040, 2069>>, <<2050, 2070>>, <<2007, 2039>>}

CallModelsFi == {"NCAR-CCSM4", "MRI-CGCM3"}

CallEras == {"2040-2069", "2010-2039"}

CallDryRo == {Num(24), Num(100), Num(132)}

CallWcPct == {Num(1), Num(15), Num(50)}

CallMagt == {Num(20), Num(32), Rat(453, 10)}

CallD == {Num(30), Num(160), Num(300)}

CallNFI == {Num(120), Num(900), Num(2250), Num(3000)}

CallKAvg == {Rat(1, 100), Rat(78, 100), Num(2)}

\* get_projected_mat_from_api(lat, lon, model, scenario, year_start, year_end)
call_get_projected_mat ==
    /\ pc \in {"idle", "done"}
    /\ runs < MaxRuns
    /\ runs' = runs + 1
    /\ \E lat \in AppLat, lon \in AppLon, model \in CallModelsMat,
          scenario \in CallScenarios, yr \in CallYearRanges :
        fa' = FetchArgs("mat", lat, lon, model, scenario, yr[1], yr[2], "")
    /\ exc' = "none"
    /\ retval' = None
    /\ stack' = <<"done">>
    /\ pc' = "mat_77"
    /\ UNCHANGED <<resp, app, mbf, net, fetchlog, mblog>>

\* get_projected_design_fi_from_api(lat, lon, model, era)
call_get_projected_design_fi ==
    /\ pc \in {"idle", "done"}
    /\ runs < MaxRuns
    /\ runs' = runs + 1
    /\ \E lat \in AppLat, lon \in AppLon, model \in CallModelsFi,
          era \in CallEras :
        fa' = FetchArgs("fi", lat, lon, model, "", 0, 0, era)
    /\ exc' = "none"
    /\ retval' = None
    /\ stack' = <<"done">>
    /\ pc' = "fi_90"
    /\ UNCHANGED <<resp, app, mbf, net, fetchlog, mblog>>

\* compute_modified_bergrenn(dry_ro, wc_pct, mat, magt, d, nFI, k_avg, ...),
\* called once.
call_compute_modified_bergrenn ==
    /\ pc = "idle"
    /\ \E dry_ro \in CallDryRo, wc_pct \in CallWcPct, magt \in CallMagt,
          d \in CallD, nFI \in CallNFI, k_avg \in CallKAvg,
          lat \in AppLat, lon \in AppLon :
        mbf' = MbFrame(dry_ro, wc_pct, magt, magt, d, nFI, k_avg,
                       Selectors(lat, lon, "GFDL-CM3", "rcp85", 2040, 2069))
    /\ stack' = <<"done">>
    /\ pc' = "mb_201"
    /\ UNCHANGED <<exc, retval, resp, fa, app, net, fetchlog, mblog, runs>>

\* ------------------------------------------------------------------------
\* Specifications
\* ------------------------------------------------------------------------

FetchMat == mat_requests_get \/ mat_json_lookup \/ mat_return

FetchFi == fi_requests_get \/ fi_json_lookup_return

Bergrenn ==
    \/ mb_call_get_projected_mat
    \/ mb_L
    \/ mb_c
    \/ mb_v_s
    \/ mb_v_o
    \/ mb_thermal_ratio
    \/ mb_mu
    \/ mb_lambda_coeff
    \/ mb_frost_depth
    \/ mb_return

\* The Streamlit session: script runs of app.py.
Next ==
    \/ app_run
    \/ app_mat_FI
    \/ app_params_mb
    \/ app_success
    \/ FetchMat
    \/ FetchFi
    \/ Bergrenn

Spec == Init /\ [][Next]_vars

\* A caller of the two fetch functions.
NextFetch ==
    \/ call_get_projected_mat
    \/ call_get_projected_design_fi
    \/ FetchMat
    \/ FetchFi

SpecFetch == Init /\ [][NextFetch]_vars

\* A caller of compute_modified_bergrenn.
NextCalc ==
    \/ call_compute_modified_bergrenn
    \/ FetchMat
    \/ Bergrenn

SpecCalc == Init /\ [][NextCalc]_vars

\* ------------------------------------------------------------------------
\* C4: the frost depth is the 8-step chain with rounding at every step
\* ------------------------------------------------------------------------

\* The chain as the claim writes it, step by step.
ReferenceChain(dry_ro, wc_pct, magt, d, nFI, k_avg) ==
    LET L == Round(RDiv(RMul(RMul(Num(144), dry_ro), wc_pct), Num(100)), 2)
        c == Round(RMul(dry_ro,
                        RAdd(Rat(17, 100),
                             RDiv(RMul(Rat(75, 100), wc_pct), Num(100)))), 2)
        v_s == RDiv(nFI, d)
        v_o == RAbs(RSub(magt, Num(32)))
        thermal_ratio == Round(RDiv(v_o, v_s), 3)
        mu == Round(RDiv(RMul(v_s, c), L), 3)
        lambda == RoundSqrt(
                      RDiv(Num(1),
                           RAdd(Num(1),
                                RMul(mu, RAdd(thermal_ratio, Rat(1, 2))))),
                      2)
    IN  RoundSqrt(RMul(RMul(lambda, lambda),
                       RDiv(RMul(RMul(Num(48), k_avg), nFI), L)), 1)

\* The same formulas with no rounding before the last step.
DeferredRounding(dry_ro, wc_pct, magt, d, nFI, k_avg) ==
    LET L == RDiv(RMul(RMul(Num(144), dry_ro), wc_pct), Num(100))
        c == RMul(dry_ro,
                  RAdd(Rat(17, 100),
                       RDiv(RMul(Rat(75, 100), wc_pct), Num(100))))
        v_s == RDiv(nFI, d)
        v_o == RAbs(RSub(magt, Num(32)))
        thermal_ratio == RDiv(v_o, v_s)
        mu == RDiv(RMul(v_s, c), L)
        q == RAdd(Num(1), RMul(mu, RAdd(thermal_ratio, Rat(1, 2))))
    IN  RoundSqrt(RDiv(RDiv(RMul(RMul(Num(48), k_avg), nFI), L), q), 1)

MbChain == ReferenceChain(mbf.dry_ro, mbf.wc_pct, mbf.magt, mbf.d, mbf.nFI,
                          mbf.k_avg)

MbDeferred == DeferredRounding(mbf.dry_ro, mbf.wc_pct, mbf.magt, mbf.d,
                               mbf.nFI, mbf.k_avg)

\* C4 as stated: whenever compute_modified_bergrenn is about to return, its
\* frost depth is the value of the 8-step chain with rounding at every step,
\* and is not the value obtained by deferring the rounding to the end.
C4_ChainAndNeverDeferred ==
    pc = "mb_211" =>
        /\ mbf.frost_depth = MbChain
        /\ mbf.frost_depth # MbDeferred

\* C4 as amended: whenever compute_modified_bergrenn is about to return, its
\* frost depth is the value of the 8-step chain with rounding at every step
\* (which for some inputs is, and for others is not, the deferred value).
C4_ChainWithStepwiseRounding ==
    pc = "mb_211" => mbf.frost_depth = MbChain

\* A return where rounding at every step and rounding at the end differ.
C4_Witness ==
    /\ pc = "mb_211"
    /\ mbf.frost_depth = MbChain
    /\ mbf.frost_depth # MbDeferred

\* ------------------------------------------------------------------------
\* C1: compute_modified_bergrenn and the network
\* ------------------------------------------------------------------------

\* C1: a call of compute_modified_bergrenn sends no request between its
\* invocation and its return (or its exception).
C1_PipelineSendsNoRequest ==
    /\ mbf.active => Len(net) = mbf.net0
    /\ \A r \in mblog : r.nreq = 0

\* ------------------------------------------------------------------------
\* C2: selectors outside the enumerated sets
\* ------------------------------------------------------------------------

OutOfSet(a) ==
    \/ a.fn = "mat" /\ (a.model \notin ModelsA \/ a.scenario \notin Scenarios)
    \/ a.fn = "fi" /\ (a.model \notin ModelsB \/ a.era \notin Eras)

\* C2: a fetch called with a model, scenario or era outside the enumerated
\* sets sends no request, and ends in an error.
C2_OutOfSetRejectedBeforeRequest ==
    /\ OutOfSet(fa) => Len(net) = fa.net0
    /\ \A i \in 1..Len(fetchlog) :
        OutOfSet(fetchlog[i]) =>
            fetchlog[i].exc # "none" /\ fetchlog[i].nreq = 0

\* ------------------------------------------------------------------------
\* C3: a finite, non-negative depth for every input in the documented ranges
\* ------------------------------------------------------------------------

InDocumentedRanges(r) ==
    /\ RLess(Num(20), r.dry_ro) /\ ~RLess(Num(135), r.dry_ro)
    /\ ~RLess(r.wc_pct, Num(1)) /\ ~RLess(Num(50), r.wc_pct)
    /\ RLess(Rat(1, 100), r.k_avg) /\ ~RLess(Num(2), r.k_avg)
    /\ ~RLess(r.d, Num(30)) /\ ~RLess(Num(300), r.d)

\* C3: with the soil and season inputs in their documented ranges (the
\* n factor is drawn from AppN, inside (0, 1]) and whatever mean annual
\* temperature and design freezing index the service returned, L > 0 and the
\* call never ends in ZeroDivisionError and never returns NaN or a negative
\* depth.  (An exception of the request made inside the call is C1's matter
\* and is not counted here.)
C3_FiniteNonNegativeDepth ==
    /\ (mbf.active /\ mbf.L # None /\ InDocumentedRanges(mbf)) =>
           mbf.L.num > 0
    /\ \A r \in mblog :
        InDocumentedRanges(r) =>
            /\ r.exc # "ZeroDivisionError"
            /\ r.exc = "none" => IsNumber(r.result) /\ r.result.num >= 0

\* ------------------------------------------------------------------------
\* C5: the latent heat of 100 lb/ft3 soil at 15 % water
\* ------------------------------------------------------------------------

C5_Case ==
    /\ mbf.active
    /\ mbf.L # None
    /\ mbf.dry_ro = Num(100)
    /\ mbf.wc_pct = Num(15)

\* C5 as stated: compute_volumetric_latent_heat_of_fusion(100, 15) returns
\* 216.0.
C5_LatentHeatIs216 == C5_Case => mbf.L = Num(216)

\* C5 as amended: compute_volumetric_latent_heat_of_fusion(100, 15) returns
\* 2160.0, which is 144 * 100 * 0.15 rounded to 2 decimals.
C5_LatentHeatIs2160 ==
    C5_Case =>
        /\ mbf.L = Num(2160)
        /\ mbf.L = Rat(RoundHalfEven(144 * 100 * 15 * 100, 100), 100)

\* L has just been computed for dry_ro = 100, wc_pct = 15.
C5_Witness == C5_Case /\ pc = "mb_204"

\* ------------------------------------------------------------------------
\* C6: the end-to-end scenario
\* ------------------------------------------------------------------------

\* The script run of the scenario, at the return of the pipeline.
C6_Scenario ==
    /\ pc = "mb_211"
    /\ app.dry_ro = Num(100)
    /\ app.wc_pct = Num(15)
    /\ app.mat = Num(20)
    /\ app.magt = Num(20)
    /\ app.d = Num(160)
    /\ app.n = Rat(75, 100)
    /\ app.k_avg = Rat(78, 100)
    /\ app.FI = Num(3000)

\* C6 as stated: nFI = 2250.0, L = 216.0, c = 18.12 or 18.13,
\* v_s = 14.0625, v_o = 12.0, thermal_ratio = 0.853, mu = 1.175 and
\* lambda = 0.70.
C6_ScenarioAsStated ==
    C6_Scenario =>
        /\ mbf.nFI = Num(2250)
        /\ mbf.L = Num(216)
        /\ mbf.c \in {Rat(1812, 100), Rat(1813, 100)}
        /\ mbf.v_s = Rat(140625, 10000)
        /\ mbf.v_o = Num(12)
        /\ mbf.thermal_ratio = Rat(853, 1000)
        /\ mbf.mu = Rat(1175, 1000)
        /\ mbf.lambda_coeff = Rat(70, 100)

\* C6 as amended: nFI = 2250.0, L = 2160.0, c = 28.25, v_s = 14.0625,
\* v_o = 12.0, thermal_ratio = 0.853, mu = 0.184 and lambda = 0.89.
C6_ScenarioValues ==
    C6_Scenario =>
        /\ app.nFI = Num(2250)
        /\ mbf.nFI = Num(2250)
        /\ mbf.L = Num(2160)
        /\ mbf.c = Rat(2825, 100)
        /\ mbf.v_s = Rat(140625, 10000)
        /\ mbf.v_o = Num(12)
        /\ mbf.thermal_ratio = Rat(853, 1000)
        /\ mbf.mu = Rat(184, 1000)
        /\ mbf.lambda_coeff = Rat(89, 100)

\* The scenario's run has reached the return of the pipeline.
C6_Witness == C6_Scenario /\ mbf.frost_depth # None

\* ------------------------------------------------------------------------
\* C7: remote failures end the fetch in an error
\* ------------------------------------------------------------------------

\* requests.get raised, the body is not JSON, or an expected key is absent.
RemoteFailure(r) ==
    \/ r.resp.kind = "raise"
    \/ r.resp.kind = "notjson"
    \/ r.fn = "mat" /\ ~(r.model \in r.resp.models
                         /\ r.scenario \in r.resp.scenarios)
    \/ r.fn = "fi" /\ ~(r.model \in r.resp.models /\ r.era \in r.resp.eras
                        /\ r.resp.hasDi)

\* C7: a fetch whose HTTP call raised, whose response is not JSON or lacks
\* the model / scenario / era / di key ends in an exception after its one
\* request, with no value returned; the exception is what its caller gets.
C7_RemoteFailuresAreErrors ==
    /\ \A i \in 1..Len(fetchlog) :
        RemoteFailure(fetchlog[i]) =>
            /\ fetchlog[i].exc \in {"ConnectionError", "JSONDecodeError",
                                    "KeyError"}
            /\ fetchlog[i].result = None
            /\ fetchlog[i].nreq = 1
    /\ (pc = "done" /\ fetchlog # <<>>
        /\ RemoteFailure(fetchlog[Len(fetchlog)])) =>
            /\ exc = fetchlog[Len(fetchlog)].exc
            /\ retval = None

\* Calls have ended on each of the failures: a raising request, a body that
\* is not JSON, an absent key.
C7_Witness ==
    /\ Len(fetchlog) = 2
    /\ fetchlog[1].exc = "KeyError"
    /\ fetchlog[1].resp.status = 200
    /\ fetchlog[2].exc \in {"ConnectionError", "JSONDecodeError"}
    /\ pc = "done"

\* ------------------------------------------------------------------------
\* C8: one request per fetch call
\* ------------------------------------------------------------------------

EndpointOf(fn) ==
    IF fn = "mat" THEN "mmm/temperature/all"
    ELSE "design_index/freezing/all/point"

SameArguments(r1, r2) ==
    /\ r1.fn = r2.fn
    /\ r1.model = r2.model
    /\ r1.scenario = r2.scenario
    /\ r1.year_start = r2.year_start
    /\ r1.year_end = r2.year_end
    /\ r1.era = r2.era

\* C8: every fetch call that has ended sent exactly one request, to its own
\* endpoint, whether it failed or not and whether or not an earlier call had
\* the same arguments; a running call has sent at most one.
C8_OneRequestPerFetchCall ==
    /\ \A i \in 1..Len(fetchlog) :
        /\ fetchlog[i].nreq = 1
        /\ i <= Len(net)
        /\ net[i].endpoint = EndpointOf(fetchlog[i].fn)
    /\ Len(net) = Len(fetchlog)
                  + (IF pc \in {"mat_77_json", "mat_78", "fi_90_json"}
                     THEN 1 ELSE 0)

\* Two calls with the same arguments have ended, the first one in an error.
C8_Witness ==
    /\ Len(fetchlog) = 2
    /\ SameArguments(fetchlog[1], fetchlog[2])
    /\ fetchlog[1].exc # "none"
    /\ Len(net) = 2

\* ------------------------------------------------------------------------
\* C9: the mean annual temperature is one rounding of the converted mean
\* ------------------------------------------------------------------------

\* The leaves of the branch whose key starts with a year in
\* year_start..year_end.
LeavesInRange(branch, year_start, year_end) ==
    {j \in 1..Len(branch) :
        LET y == ParseInt(SubSeq(branch[j].outer, 1, 4))
        IN  year_start <= y /\ y <= year_end}

RECURSIVE SumOver(_, _)
SumOver(branch, J) ==
    IF J = {} THEN 0
    ELSE LET j == CHOOSE k \in J : TRUE
         IN  branch[j].val + SumOver(branch, J \ {j})

\* round1(mean(V) * 1.8 + 32), V in tenths of a degree: with t the sum of V
\* and n its size, (t / (10 n)) * 1.8 + 32 = (9 t + 1600 n) / (50 n).
RoundedFahrenheitOfMean(t, n) ==
    Rat(RoundHalfEven(9 * t + 1600 * n, 5 * n), 10)

\* C9: a get_projected_mat_from_api call that returned, with some year of
\* the branch in year_start..year_end, returned round1(mean(V) * 1.8 + 32)
\* for V the values of exactly the leaves whose leading year is in that range,
\* both ends included.
C9_MeanOfYearsInRange ==
    \A i \in 1..Len(fetchlog) :
        LET r == fetchlog[i]
            J == LeavesInRange(r.resp.branch, r.year_start, r.year_end)
        IN  (r.fn = "mat" /\ r.exc = "none" /\ J # {}) =>
                r.result = RoundedFahrenheitOfMean(SumOver(r.resp.branch, J),
                                                   Cardinality(J))

\* A call whose year_end is the year of a leaf has returned: 2050..2070 over
\* the decades branch is the mean of -6.7, -6.7 and 1.0, 24.6 F.
C9_Witness ==
    \E i \in 1..Len(fetchlog) :
        /\ fetchlog[i].fn = "mat"
        /\ fetchlog[i].exc = "none"
        /\ fetchlog[i].year_start = 2050
        /\ fetchlog[i].year_end = 2070
        /\ fetchlog[i].resp.branch = BranchDecades
        /\ fetchlog[i].result = Rat(246, 10)

\* ------------------------------------------------------------------------
\* C10: the outcome of the pipeline and its six scalars
\* ------------------------------------------------------------------------

SameSixScalars(r1, r2) ==
    /\ r1.dry_ro = r2.dry_ro
    /\ r1.wc_pct = r2.wc_pct
    /\ r1.magt = r2.magt
    /\ r1.d = r2.d
    /\ r1.nFI = r2.nFI
    /\ r1.k_avg = r2.k_avg

SameOutcome(r1, r2) ==
    \/ r1.exc = "none" /\ r2.exc = "none" /\ r1.result = r2.result
    \/ r1.exc # "none" /\ r2.exc # "none"

\* C10: two calls of compute_modified_bergrenn that agree on dry_ro, wc_pct,
\* magt, d, nFI and k_avg end in the same outcome, whatever the other
\* arguments and whatever the service answered.
C10_OutcomeOfSixScalarsOnly ==
    \A r1 \in mblog, r2 \in mblog :
        SameSixScalars(r1, r2) => SameOutcome(r1, r2)
====
